---- MODULE Spec2Model ----
(***************************************************************************)
(* Model of the sliding-window-counter rate limiter of pkg/limiter         *)
(* (limiter.go): the global rule, the client -> Limiter map, and the       *)
(* steps of AllowRequest / Limiter.Allow as they interleave between        *)
(* concurrent callers.  Time is counted in ticks; a time.Duration and a    *)
(* time.Time are integers (ticks, and ticks since the zero time).          *)
(***************************************************************************)
EXTENDS Integers, Sequences, FiniteSets, TLC

\* ------------------------------------------------------------------ bounds

\* Concurrent callers (goroutines serving requests) of specification Spec.
NumProcs == 2
\* AllowRequest calls started in one behaviour of Spec.
MaxCalls == 2
\* AddRule calls in one behaviour of Spec.
MaxAddRules == 2
\* Largest clock reading of Spec.
MaxTime == 2
\* Largest maxRequests and largest unit passed to AddRule in Spec.
MaxM == 1
MaxUnit == 2

\* The sequential specification SeqSpec: one caller, one client, the rule
\* set once.
SeqMaxCalls == 7
SeqMaxTime == 6
SeqMaxM == 5
SeqMaxUnit == 5

\* The concurrent specification ConcSpec, which takes the critical section
\* of Allow one step at a time.
ConcMaxCalls == 3
ConcMaxAddRules == 2
ConcMaxTime == 2
ConcMaxUnit == 2

\* The fair specification FairSpec: the steps of ConcSpec with fewer calls.
FairMaxCalls == 2
FairMaxAddRules == 2

\* The sequential specification ReconfSpec, in which the rule is replaced
\* between requests.
ReconfMaxCalls == 4
ReconfMaxAddRules == 3
ReconfMaxTime == 4
ReconfMaxUnit == 3

\* The sequential specification WeightSpec, with the counts and the unit at
\* which the float64 product of line 116 is not the exact one.
WeightMaxCalls == 24

\* The specification ServerSpec of the HTTP handlers.
ServerMaxCalls == 3
ServerMaxTime == 1

\* The sequential specification RetrySpec of a client that waits out the
\* returned duration after a rejection.
RetryMaxCalls == 6
RetryMaxTime == 8
RetryMaxM == 2
RetryMaxUnit == 3

Procs == 1..NumProcs
Clients == {"A", "B"}
SeqClients == {"A"}

\* Arguments of AddRule: the code accepts any int64 and any Duration.
MaxRequestsArgs == 0..MaxM
UnitArgs == 0..MaxUnit
SeqMaxRequestsArgs == {0, 2, SeqMaxM}
ConcMaxRequestsArgs == {1}
ReconfMaxRequestsArgs == {2}
RetryMaxRequestsArgs == 1..RetryMaxM
RetryUnitArgs == 2..RetryMaxUnit
ServerMaxRequestsArgs == {1}
ServerUnitArgs == {1}
WeightMaxRequestsArgs == {15}
WeightUnitArgs == {22}
\* Clock readings of WeightSpec: the start of window 0, and the start of and
\* 7 ticks into the next window of 22 ticks.
WeightTimes == {0, 22, 29}
ReconfUnitArgs == 1..ReconfMaxUnit
ConcUnitArgs == 1..ConcMaxUnit
SeqUnitArgs == {3, SeqMaxUnit}

\* ------------------------------------------------------------- time, rule

\* time.Time{}: the zero Time a fresh Limiter holds in prevWindow and
\* currWindow.  It carries a nil location, so == never finds it equal to a
\* window computed from time.Now(); the model keeps it apart from every
\* clock reading and every window start.
ZeroTime == -100

\* var rule *Rule, nil until the first AddRule.
NilRule == [nil |-> TRUE, maxRequests |-> 0, unit |-> 0]

\* &Rule{maxRequests: maxRequests, unit: unit}
NewRule(maxRequests, unit) ==
    [nil |-> FALSE, maxRequests |-> maxRequests, unit |-> unit]

\* Mutant of Truncate: Time.Round(d), t rounded to the nearest multiple of d,
\* halfway values up.
RoundTime(t, d) ==
    IF d <= 0 THEN t
    ELSE IF 2 * (t % d) < d THEN t - (t % d) ELSE t + d - (t % d)

\* Time.Truncate(d): t rounded down to a multiple of d since the zero time;
\* for d <= 0 it returns t unchanged.
Truncate(t, d) == IF d <= 0 THEN t ELSE t - (t % d)

\* &Limiter{}: zero windows, zero counters, unlocked mutex (lock = 0, else
\* the caller holding it).
NewLimiter ==
    [prevWindow |-> ZeroTime, prevCounter |-> 0,
     currWindow |-> ZeroTime, currCounter |-> 0, lock |-> 0]

\* ------------------------------------------------------------ int64 values

\* An int64 near one of three anchors: -2^63 (base -1), 0 (base 0) and
\* 2^63 - 1 (base 1), as base + off with a small off.
I64(base, off) == [base |-> base, off |-> off]
MinInt64 == I64(0 - 1, 0)
MaxInt64 == I64(1, 0)
Small(n) == I64(0, n)

\* x + c in int64 for a small c >= 0: above 2^63 - 1 the sum wraps to -2^63.
I64Add(x, c) ==
    IF x.base = 1 /\ x.off + c > 0
    THEN I64(0 - 1, x.off + c - 1)
    ELSE I64(x.base, x.off + c)

\* x < m in int64 for a small m.
I64Less(x, m) ==
    CASE x.base = 0 - 1 -> TRUE
      [] x.base = 0 -> x.off < m
      [] OTHER -> FALSE

\* --------------------------------------------------- float64 arithmetic

Abs(n) == IF n < 0 THEN 0 - n ELSE n
Sign(n) == IF n < 0 THEN 0 - 1 ELSE 1

RECURSIVE Pow2(_)
Pow2(n) == IF n <= 0 THEN 1 ELSE 2 * Pow2(n - 1)

\* 2^s mod m
RECURSIVE Pow2Mod(_, _)
Pow2Mod(s, m) == IF s <= 0 THEN 1 % m ELSE (2 * Pow2Mod(s - 1, m)) % m

\* floor(log2 n) for n >= 1
RECURSIVE Log2(_)
Log2(n) == IF n <= 1 THEN 0 ELSE 1 + Log2(n \div 2)

\* The binary exponent of a/b (a, b > 0): the j with 1 <= (a/b) * 2^j < 2.
RECURSIVE RatioShift(_, _, _)
RatioShift(a, b, j) ==
    IF a < b THEN RatioShift(2 * a, b, j + 1)
    ELSE IF a >= 2 * b THEN RatioShift(a, 2 * b, j - 1)
    ELSE j

\* Whether float64(a) / float64(b) (a, b > 0, a/b not a float64) is rounded
\* down, and the remainder r of the 53-bit quotient: the quotient is
\* Q = floor(a * 2^s / b) with s = 52 + j, r = a * 2^s mod b, and IEEE
\* round-to-nearest-even takes Q when 2r < b, or 2r = b and Q is even.
DivRemainder(a, b) ==
    LET s == 52 + RatioShift(a, b, 0)
        R2 == (a * Pow2Mod(s, 2 * b)) % (2 * b)
        r == R2 % b
        Qodd == R2 >= b
    IN  [r |-> r, down |-> (2 * r < b) \/ (2 * r = b /\ ~Qodd)]

\* int64(float64(P) * (float64(a) / float64(b))) for P, a >= 0, b > 0.
\* When P*a/b is no integer the two roundings cannot reach the next
\* integer, so the truncation is the floor.  When P*a/b is the integer n,
\* the product is n unless the quotient was rounded down by r / (b * 2^s)
\* and P times that error exceeds half the float64 spacing just below n;
\* then the product is the float64 below n and the truncation is n - 1.
TruncMulDiv(P, a, b) ==
    IF P = 0 \/ a = 0 THEN 0
    ELSE IF (P * a) % b # 0 THEN (P * a) \div b
    ELSE LET n == (P * a) \div b
             d == DivRemainder(a, b)
             k == Log2(n)
             kk == IF n > Pow2(k) THEN k ELSE k - 1
             e == RatioShift(a, b, 0) + kk
             lhs == IF e >= 0 THEN 2 * P * d.r ELSE 2 * P * d.r * Pow2(0 - e)
             rhs == IF e >= 0 THEN b * Pow2(e) ELSE b
         IN  IF d.r # 0 /\ d.down /\ lhs > rhs THEN n - 1 ELSE n

\* The int64 a float64 that is NaN or infinite converts to is
\* implementation-dependent in Go: amd64 yields -2^63 for all three, arm64
\* yields 0 for NaN and saturates the infinities.
NaNToInt64 == {MinInt64, Small(0)}
PosInfToInt64 == {MinInt64, MaxInt64}
NegInfToInt64 == {MinInt64}

\* limiter.go:116, the values
\*   int64(float64(newPrevCounter) * (float64(prevWindowOverlap) / float64(rule.unit)))
\* can take (newPrevCounter >= 0).
WeightedCounter(newPrevCounter, prevWindowOverlap, unit) ==
    IF unit = 0 THEN
        IF prevWindowOverlap = 0 \/ newPrevCounter = 0 THEN NaNToInt64
        ELSE IF prevWindowOverlap > 0 THEN PosInfToInt64
        ELSE NegInfToInt64
    ELSE {Small(Sign(prevWindowOverlap) * Sign(unit)
                * TruncMulDiv(newPrevCounter, Abs(prevWindowOverlap), Abs(unit)))}

\* ------------------------------------------------------------------ state

VARIABLES
    rule,              \* var rule *Rule (limiter.go:24)
    clientLimiterMap,  \* var clientLimiterMap sync.Map: client -> *Limiter, 0 absent
    heap,              \* the Limiter objects allocated so far; a *Limiter is an index
    createdFor,        \* history: the client each Limiter was allocated for
    clock,             \* the latest reading time.Now() has returned
    pc,                \* each caller's position in AllowRequest / Allow
    loc,               \* each caller's local variables
    calls,             \* history: AllowRequest calls started
    addRules,          \* history: AddRule calls made
    log,               \* history: the decisions returned, in order of return
    serial,            \* history: each Limiter as the calls leave it when run
                       \* one after another in the order they took its lock
    clientMetricMap,   \* var clientMetricMap sync.Map (server.go:24)
    handler            \* each HTTP handler's position and locals (server.go:41-54)

vars == <<rule, clientLimiterMap, heap, createdFor, clock, pc, loc, calls,
          addRules, log, serial, clientMetricMap, handler>>

\* The state of the server package, which the limiter package never touches.
serverVars == <<clientMetricMap, handler>>

\* The state of the limiter package and its histories.
limiterVars == <<rule, clientLimiterMap, heap, createdFor, clock, pc, loc,
                 calls, addRules, log>>

\* The locals of a caller outside AllowRequest.  Beside the variables of the
\* code: used, the rule the call read first (line 79); mixed, whether a
\* later read of the rule in the same call returned another value; branch
\* oldCurrWindow and oldCurrCounter, the branch the window update took and
\* the currWindow and currCounter it found.
NoLocals ==
    [clientId |-> "", l |-> 0, now |-> 0,
     newCurrWindow |-> 0, newPrevWindow |-> 0,
     newCurrCounter |-> 0, newPrevCounter |-> 0,
     prevWindowOverlap |-> 0, prevWindowWeightedCounter |-> Small(0),
     used |-> NilRule, mixed |-> FALSE, branch |-> "", oldCurrWindow |-> 0,
     oldCurrCounter |-> 0]

\* clientMetric{} (server.go:19-22, 82): both counters 0.
NewClientMetric == [NumAccepted |-> 0, NumRejected |-> 0]

\* A key clientMetricMap does not hold.
NoMetric == [present |-> FALSE, val |-> NewClientMetric]

\* A handler outside a request, with the variables of the code: clientId,
\* allowRequest, timeLeft, and val of reportMetric.
NoRequest ==
    [pc |-> "idle", clientId |-> "", allowRequest |-> FALSE, timeLeft |-> 0,
     val |-> NewClientMetric]

\* The history of a Limiter's lock: lim, the Limiter objects as the calls
\* leave them when they run one after another in the order they took the
\* lock; snap, the fields each caller copies out on its turn in that order.
NoSerial ==
    [lim |-> <<>>,
     snap |-> [p \in Procs |-> [NewLimiter EXCEPT !.lock = 0]]]

Init ==
    /\ serial = NoSerial
    /\ clientMetricMap = [c \in Clients |-> NoMetric]
    /\ handler = [p \in Procs |-> NoRequest]
    /\ rule = NilRule
    /\ clientLimiterMap = [c \in Clients |-> 0]
    /\ heap = <<>>
    /\ createdFor = <<>>
    /\ clock = 0
    /\ pc = [p \in Procs |-> "idle"]
    /\ loc = [p \in Procs |-> NoLocals]
    /\ calls = 0
    /\ addRules = 0
    /\ log = <<>>

\* ------------------------------------------------------------- operations

\* limiter.go:27-32.  AddRule stores a new Rule; it checks nothing and
\* returns nothing.
AddRule(maxRequests, unit) ==
    /\ rule' = NewRule(maxRequests, unit)
    /\ addRules' = addRules + 1
    /\ UNCHANGED <<clientLimiterMap, heap, createdFor, clock, pc, loc, calls, log>>

\* Mutant of NoRuleResult: the absent rule rejects.
NoRuleRejects == [admitted |-> FALSE, duration |-> 0 - 1]

\* limiter.go:63, the pair AllowRequest returns while rule == nil.
NoRuleResult == [admitted |-> TRUE, duration |-> 0 - 1]

\* A decision as the history keeps it: what was returned, and the locals it
\* was computed from.
Decision(clientId, noRule, res, locals) ==
    [clientId |-> clientId, noRule |-> noRule,
     admitted |-> res.admitted, duration |-> res.duration,
     l |-> locals.l, now |-> locals.now,
     currWindow |-> locals.newCurrWindow, prevWindow |-> locals.newPrevWindow,
     currCounter |-> locals.newCurrCounter, prevCounter |-> locals.newPrevCounter,
     overlap |-> locals.prevWindowOverlap,
     weighted |-> locals.prevWindowWeightedCounter,
     used |-> locals.used, mixed |-> locals.mixed,
     branch |-> locals.branch, oldCurrWindow |-> locals.oldCurrWindow,
     oldCurrCounter |-> locals.oldCurrCounter]

\* limiter.go:60-70.  The nil check of the rule, then the Load of the
\* client's Limiter: a hit goes on to Allow, a miss to the Store of a new
\* Limiter (a later step: Load and Store are two operations on the map).
AllowRequest(p, clientId) ==
    /\ pc[p] = "idle"
    /\ calls' = calls + 1
    /\ IF rule.nil
       THEN /\ log' = Append(log, Decision(clientId, TRUE, NoRuleResult, NoLocals))
            /\ UNCHANGED <<pc, loc>>
       ELSE /\ loc' = [loc EXCEPT ![p] =
                         [NoLocals EXCEPT !.clientId = clientId,
                                          !.l = clientLimiterMap[clientId]]]
            /\ pc' = [pc EXCEPT ![p] =
                         IF clientLimiterMap[clientId] # 0 THEN "now" ELSE "store"]
            /\ UNCHANGED log
    /\ UNCHANGED <<rule, clientLimiterMap, heap, createdFor, clock, addRules>>

\* limiter.go:71-72.  l = &Limiter{}; clientLimiterMap.Store(clientId, l).
StoreLimiter(p) ==
    /\ pc[p] = "store"
    /\ heap' = Append(heap, NewLimiter)
    /\ createdFor' = Append(createdFor, loc[p].clientId)
    /\ clientLimiterMap' = [clientLimiterMap EXCEPT ![loc[p].clientId] = Len(heap) + 1]
    /\ loc' = [loc EXCEPT ![p].l = Len(heap) + 1]
    /\ pc' = [pc EXCEPT ![p] = "now"]
    /\ UNCHANGED <<rule, clock, calls, addRules, log>>

\* limiter.go:78-79.  now := time.Now(), a reading t not before the latest
\* one; newCurrWindow := now.Truncate(rule.unit).
AllowNow(p, t) ==
    /\ pc[p] = "now"
    /\ t >= clock
    /\ clock' = t
    /\ loc' = [loc EXCEPT ![p].now = t,
                          ![p].newCurrWindow = Truncate(t, rule.unit),
                          ![p].used = rule]
    /\ pc' = [pc EXCEPT ![p] = "prev"]
    /\ UNCHANGED <<rule, clientLimiterMap, heap, createdFor, calls, addRules, log>>

\* limiter.go:80.  newPrevWindow := newCurrWindow.Add(-rule.unit)
AllowPrevWindow(p) ==
    /\ pc[p] = "prev"
    /\ loc' = [loc EXCEPT ![p].newPrevWindow = loc[p].newCurrWindow - rule.unit,
                          ![p].mixed = @ \/ rule # loc[p].used]
    /\ pc' = [pc EXCEPT ![p] = "lock"]
    /\ UNCHANGED <<rule, clientLimiterMap, heap, createdFor, clock, calls, addRules, log>>

\* Mutant of Lock: one mutex for all the Limiters.
LockGlobal(p) ==
    /\ pc[p] = "lock"
    /\ \A i \in DOMAIN heap : heap[i].lock = 0
    /\ heap' = [heap EXCEPT ![loc[p].l].lock = p]
    /\ pc' = [pc EXCEPT ![p] = "crit"]
    /\ UNCHANGED <<rule, clientLimiterMap, createdFor, clock, loc, calls, addRules, log>>

\* Mutant of Lock: the critical section is entered without the mutex.
LockNoWait(p) ==
    /\ pc[p] = "lock"
    /\ heap' = [heap EXCEPT ![loc[p].l].lock = p]
    /\ pc' = [pc EXCEPT ![p] = "crit"]
    /\ UNCHANGED <<rule, clientLimiterMap, createdFor, clock, loc, calls, addRules, log>>

\* limiter.go:88.  l.lock.Lock(): waits until the mutex is free.
Lock(p) ==
    /\ pc[p] = "lock"
    /\ heap[loc[p].l].lock = 0
    /\ heap' = [heap EXCEPT ![loc[p].l].lock = p]
    /\ pc' = [pc EXCEPT ![p] = "crit"]
    /\ UNCHANGED <<rule, clientLimiterMap, createdFor, clock, loc, calls, addRules, log>>

\* limiter.go:91-107, which branch the window comparison takes.
Branch(lim, newCurrWindow, newPrevWindow) ==
    IF newCurrWindow = lim.currWindow THEN "same"
    ELSE IF newPrevWindow = lim.currWindow THEN "next"
    ELSE "reset"

\* Mutant of Advance: the request that opens a window is counted in it.
AdvanceCountsOpener(lim, newCurrWindow, newPrevWindow) ==
    IF newCurrWindow = lim.currWindow
    THEN [lim EXCEPT !.currCounter = @ + 1]
    ELSE IF newPrevWindow = lim.currWindow
    THEN [lim EXCEPT !.prevWindow = lim.currWindow,
                     !.prevCounter = lim.currCounter,
                     !.currWindow = newCurrWindow,
                     !.currCounter = 1]
    ELSE [lim EXCEPT !.prevWindow = ZeroTime,
                     !.prevCounter = 0,
                     !.currWindow = newCurrWindow,
                     !.currCounter = 1]

\* Mutant of Advance: a window opened after an idle time also rolls the old
\* current window into the previous one.
AdvanceAlwaysRolls(lim, newCurrWindow, newPrevWindow) ==
    IF newCurrWindow = lim.currWindow
    THEN [lim EXCEPT !.currCounter = @ + 1]
    ELSE [lim EXCEPT !.prevWindow = lim.currWindow,
                     !.prevCounter = lim.currCounter,
                     !.currWindow = newCurrWindow,
                     !.currCounter = 0]

\* Mutant of Advance: the count is reset before it is moved to the previous
\* window (the assignments of lines 98 and 106 in the other order).
AdvanceResetsBeforeRoll(lim, newCurrWindow, newPrevWindow) ==
    IF newCurrWindow = lim.currWindow
    THEN [lim EXCEPT !.currCounter = @ + 1]
    ELSE IF newPrevWindow = lim.currWindow
    THEN [lim EXCEPT !.prevWindow = lim.currWindow,
                     !.prevCounter = 0,
                     !.currWindow = newCurrWindow,
                     !.currCounter = 0]
    ELSE [lim EXCEPT !.prevWindow = ZeroTime,
                     !.prevCounter = 0,
                     !.currWindow = newCurrWindow,
                     !.currCounter = 0]

\* Mutant of Advance: a new window keeps the count of the old one (the
\* assignment of line 106 left out).
AdvanceKeepsCount(lim, newCurrWindow, newPrevWindow) ==
    IF newCurrWindow = lim.currWindow
    THEN [lim EXCEPT !.currCounter = @ + 1]
    ELSE IF newPrevWindow = lim.currWindow
    THEN [lim EXCEPT !.prevWindow = lim.currWindow,
                     !.prevCounter = lim.currCounter,
                     !.currWindow = newCurrWindow]
    ELSE [lim EXCEPT !.prevWindow = ZeroTime,
                     !.prevCounter = 0,
                     !.currWindow = newCurrWindow]

\* limiter.go:91-107, the Limiter after the window update.
Advance(lim, newCurrWindow, newPrevWindow) ==
    IF newCurrWindow = lim.currWindow
    THEN [lim EXCEPT !.currCounter = @ + 1]
    ELSE IF newPrevWindow = lim.currWindow
    THEN [lim EXCEPT !.prevWindow = lim.currWindow,
                     !.prevCounter = lim.currCounter,
                     !.currWindow = newCurrWindow,
                     !.currCounter = 0]
    ELSE [lim EXCEPT !.prevWindow = ZeroTime,
                     !.prevCounter = 0,
                     !.currWindow = newCurrWindow,
                     !.currCounter = 0]

\* Mutant of PrevWindowOverlap: the time elapsed in the window in place of
\* the time left.
ElapsedInWindow(unit, now, newCurrWindow) == now - newCurrWindow

\* limiter.go:115.  prevWindowOverlap := rule.unit - now.Sub(newCurrWindow)
PrevWindowOverlap(unit, now, newCurrWindow) == unit - (now - newCurrWindow)

\* limiter.go:89-115.  The critical section: the window update, the copy of
\* the four fields into the locals, the deferred Unlock; then the read of
\* rule.unit for prevWindowOverlap, which touches nothing another caller
\* writes but the rule, and the critical section does not read the rule.
Critical(p) ==
    /\ pc[p] = "crit"
    /\ LET old == heap[loc[p].l]
           lim == Advance(old, loc[p].newCurrWindow, loc[p].newPrevWindow)
       IN  /\ heap' = [heap EXCEPT ![loc[p].l] = [lim EXCEPT !.lock = 0]]
           /\ loc' = [loc EXCEPT
                  ![p].branch = Branch(old, loc[p].newCurrWindow, loc[p].newPrevWindow),
                  ![p].oldCurrWindow = old.currWindow,
                  ![p].oldCurrCounter = old.currCounter,
                  ![p].newCurrWindow = lim.currWindow,
                  ![p].newPrevWindow = lim.prevWindow,
                  ![p].newCurrCounter = lim.currCounter,
                  ![p].newPrevCounter = lim.prevCounter,
                  ![p].prevWindowOverlap =
                        PrevWindowOverlap(rule.unit, loc[p].now, lim.currWindow),
                  ![p].mixed = @ \/ rule # loc[p].used]
    /\ pc' = [pc EXCEPT ![p] = "weight"]
    /\ UNCHANGED <<rule, clientLimiterMap, createdFor, clock, calls, addRules, log>>

\* limiter.go:93, 97-106, the writes of the branch the comparison chose.
Update(lim, branch, newCurrWindow) ==
    IF branch = "same"
    THEN [lim EXCEPT !.currCounter = @ + 1]
    ELSE IF branch = "next"
    THEN [lim EXCEPT !.prevWindow = lim.currWindow,
                     !.prevCounter = lim.currCounter,
                     !.currWindow = newCurrWindow,
                     !.currCounter = 0]
    ELSE [lim EXCEPT !.prevWindow = ZeroTime,
                     !.prevCounter = 0,
                     !.currWindow = newCurrWindow,
                     !.currCounter = 0]

\* limiter.go:91 and 95, the critical section taken one step at a time: the
\* comparisons of l.currWindow with the two window starts.
CritCompare(p) ==
    /\ pc[p] = "crit"
    /\ LET old == heap[loc[p].l]
       IN  loc' = [loc EXCEPT
                  ![p].branch = Branch(old, loc[p].newCurrWindow, loc[p].newPrevWindow),
                  ![p].oldCurrWindow = old.currWindow,
                  ![p].oldCurrCounter = old.currCounter]
    /\ pc' = [pc EXCEPT ![p] = "update"]
    /\ UNCHANGED <<rule, clientLimiterMap, heap, createdFor, clock, calls, addRules, log>>

\* limiter.go:93, 97-106.  The writes to the Limiter's fields.
CritUpdate(p) ==
    /\ pc[p] = "update"
    /\ heap' = [heap EXCEPT ![loc[p].l] =
                    Update(@, loc[p].branch, loc[p].newCurrWindow)]
    /\ pc' = [pc EXCEPT ![p] = "copy"]
    /\ UNCHANGED <<rule, clientLimiterMap, createdFor, clock, loc, calls, addRules, log>>

\* Mutant of CritCopy: the mutex is not released (no deferred Unlock).
CritCopyKeepsLock(p) ==
    /\ pc[p] = "copy"
    /\ LET lim == heap[loc[p].l]
       IN  /\ heap' = heap
           /\ loc' = [loc EXCEPT
                  ![p].newCurrWindow = lim.currWindow,
                  ![p].newPrevWindow = lim.prevWindow,
                  ![p].newCurrCounter = lim.currCounter,
                  ![p].newPrevCounter = lim.prevCounter,
                  ![p].prevWindowOverlap =
                        PrevWindowOverlap(rule.unit, loc[p].now, lim.currWindow),
                  ![p].mixed = @ \/ rule # loc[p].used]
    /\ pc' = [pc EXCEPT ![p] = "weight"]
    /\ UNCHANGED <<rule, clientLimiterMap, createdFor, clock, calls, addRules, log>>

\* limiter.go:109-115.  The copy of the four fields into the locals, the
\* deferred Unlock, and the read of rule.unit for prevWindowOverlap.
CritCopy(p) ==
    /\ pc[p] = "copy"
    /\ LET lim == heap[loc[p].l]
       IN  /\ heap' = [heap EXCEPT ![loc[p].l].lock = 0]
           /\ loc' = [loc EXCEPT
                  ![p].newCurrWindow = lim.currWindow,
                  ![p].newPrevWindow = lim.prevWindow,
                  ![p].newCurrCounter = lim.currCounter,
                  ![p].newPrevCounter = lim.prevCounter,
                  ![p].prevWindowOverlap =
                        PrevWindowOverlap(rule.unit, loc[p].now, lim.currWindow),
                  ![p].mixed = @ \/ rule # loc[p].used]
    /\ pc' = [pc EXCEPT ![p] = "weight"]
    /\ UNCHANGED <<rule, clientLimiterMap, createdFor, clock, calls, addRules, log>>

\* The history of the lock: the caller that takes the lock of a Limiter
\* takes its turn on the Limiter of the one-after-another execution.
TakeTurn(p) ==
    LET l == loc[p].l
        s == Advance(serial.lim[l], loc[p].newCurrWindow, loc[p].newPrevWindow)
    IN  serial' = [lim |-> [serial.lim EXCEPT ![l] = s],
                   snap |-> [serial.snap EXCEPT ![p] = s]]

\* limiter.go:116.  prevWindowWeightedCounter := int64(float64(newPrevCounter) * ...)
AllowWeight(p) ==
    /\ pc[p] = "weight"
    /\ \E w \in WeightedCounter(loc[p].newPrevCounter, loc[p].prevWindowOverlap,
                                rule.unit) :
          loc' = [loc EXCEPT ![p].prevWindowWeightedCounter = w,
                             ![p].mixed = @ \/ rule # loc[p].used]
    /\ pc' = [pc EXCEPT ![p] = "return"]
    /\ UNCHANGED <<rule, clientLimiterMap, heap, createdFor, clock, calls, addRules, log>>

\* Mutant of Admitted: <= in place of <.
AdmittedUpTo(prevWindowWeightedCounter, newCurrCounter, maxRequests) ==
    I64Less(I64Add(prevWindowWeightedCounter, newCurrCounter), maxRequests + 1)

\* limiter.go:117-118, the admission test
\*   prevWindowWeightedCounter + newCurrCounter < rule.maxRequests
Admitted(prevWindowWeightedCounter, newCurrCounter, maxRequests) ==
    I64Less(I64Add(prevWindowWeightedCounter, newCurrCounter), maxRequests)

\* Mutant of ReturnedDuration: the duration is returned on rejection only.
DurationOnRejection(admitted, prevWindowOverlap) ==
    IF admitted THEN 0 - 1 ELSE prevWindowOverlap

\* limiter.go:118, the duration returned beside the decision.
ReturnedDuration(admitted, prevWindowOverlap) == prevWindowOverlap

\* limiter.go:117-118 and 74.  The decision and the duration are returned.
AllowReturn(p) ==
    /\ pc[p] = "return"
    /\ LET locals == [loc[p] EXCEPT !.mixed = @ \/ rule # loc[p].used]
           admitted == Admitted(locals.prevWindowWeightedCounter,
                                locals.newCurrCounter, rule.maxRequests)
           res == [admitted |-> admitted,
                   duration |-> ReturnedDuration(admitted, locals.prevWindowOverlap)]
       IN  log' = Append(log, Decision(locals.clientId, FALSE, res, locals))
    /\ loc' = [loc EXCEPT ![p] = NoLocals]
    /\ pc' = [pc EXCEPT ![p] = "idle"]
    /\ UNCHANGED <<rule, clientLimiterMap, heap, createdFor, clock, calls, addRules>>

\* ------------------------------------------------------------ HTTP server

\* server.go:41-43.  A handler takes a request of client clientId and calls
\* limiter.AllowRequest, which returns at once while no rule is set.
HandlerCall(p, clientId) ==
    /\ handler[p].pc = "idle"
    /\ AllowRequest(p, clientId)
    /\ handler' = [handler EXCEPT ![p] =
                      IF rule.nil
                      THEN [NoRequest EXCEPT !.pc = "report",
                                             !.clientId = clientId,
                                             !.allowRequest = NoRuleResult.admitted,
                                             !.timeLeft = NoRuleResult.duration]
                      ELSE [NoRequest EXCEPT !.pc = "allow",
                                             !.clientId = clientId]]
    /\ UNCHANGED <<serial, clientMetricMap>>

\* server.go:43-44.  allowRequest, timeLeft := limiter.AllowRequest(clientId)
\* returns from Allow.
HandlerDecision(p) ==
    /\ handler[p].pc = "allow"
    /\ AllowReturn(p)
    /\ handler' = [handler EXCEPT ![p].pc = "report",
                                  ![p].allowRequest = log'[Len(log')].admitted,
                                  ![p].timeLeft = log'[Len(log')].duration]
    /\ UNCHANGED <<serial, clientMetricMap>>

\* server.go:82-85.  reportMetric: val is the client's entry, or
\* clientMetric{} when clientMetricMap.Load finds none.
ReportLoad(p) ==
    /\ handler[p].pc = "report"
    /\ handler' = [handler EXCEPT
                      ![p].pc = "store",
                      ![p].val = IF clientMetricMap[handler[p].clientId].present
                                 THEN clientMetricMap[handler[p].clientId].val
                                 ELSE NewClientMetric]
    /\ UNCHANGED <<limiterVars, serial, clientMetricMap>>

\* server.go:86-90.  val.NumAccepted++ or val.NumRejected++
Count(val, accepted) ==
    IF accepted
    THEN [val EXCEPT !.NumAccepted = @ + 1]
    ELSE [val EXCEPT !.NumRejected = @ + 1]

\* server.go:86-91, then 47 or 50-52.  The count, clientMetricMap.Store(id,
\* val), and the response: 200 when allowRequest, else 429 with the
\* X-RateLimit-Reset header.
ReportStore(p) ==
    /\ handler[p].pc = "store"
    /\ clientMetricMap' =
          [clientMetricMap EXCEPT ![handler[p].clientId] =
              [present |-> TRUE, val |-> Count(handler[p].val, handler[p].allowRequest)]]
    /\ handler' = [handler EXCEPT ![p] = NoRequest]
    /\ UNCHANGED <<limiterVars, serial>>

\* --------------------------------------------------------- specifications

\* The callers are interchangeable: a new call is taken by the first idle one.
FirstIdle(p) == \A q \in Procs : q < p => pc[q] # "idle"

\* Concurrent callers for any clients, AddRule at any moment.
Next ==
    \/ \E m \in MaxRequestsArgs, u \in UnitArgs :
          addRules < MaxAddRules /\ AddRule(m, u) /\ UNCHANGED <<serial, serverVars>>
    \/ \E p \in Procs, c \in Clients :
          /\ calls < MaxCalls /\ FirstIdle(p) /\ AllowRequest(p, c)
          /\ UNCHANGED <<serial, serverVars>>
    \/ \E p \in Procs : StoreLimiter(p) /\ UNCHANGED <<serial, serverVars>>
    \/ \E p \in Procs, t \in 0..MaxTime : AllowNow(p, t) /\ UNCHANGED <<serial, serverVars>>
    \/ \E p \in Procs : AllowPrevWindow(p) /\ UNCHANGED <<serial, serverVars>>
    \/ \E p \in Procs : Lock(p) /\ UNCHANGED <<serial, serverVars>>
    \/ \E p \in Procs : Critical(p) /\ UNCHANGED <<serial, serverVars>>
    \/ \E p \in Procs : AllowWeight(p) /\ UNCHANGED <<serial, serverVars>>
    \/ \E p \in Procs : AllowReturn(p) /\ UNCHANGED <<serial, serverVars>>

Spec == Init /\ [][Next]_vars

\* One caller issuing the requests of one client one after another; the
\* rule is set once, between two requests.
SeqNext ==
    \/ \E m \in SeqMaxRequestsArgs, u \in SeqUnitArgs :
          /\ rule.nil /\ pc[1] = "idle" /\ AddRule(m, u)
          /\ UNCHANGED <<serial, serverVars>>
    \/ \E c \in SeqClients :
          /\ calls < SeqMaxCalls /\ AllowRequest(1, c)
          /\ UNCHANGED <<serial, serverVars>>
    \/ StoreLimiter(1) /\ UNCHANGED <<serial, serverVars>>
    \/ \E t \in 0..SeqMaxTime : AllowNow(1, t) /\ UNCHANGED <<serial, serverVars>>
    \/ AllowPrevWindow(1) /\ UNCHANGED <<serial, serverVars>>
    \/ Lock(1) /\ UNCHANGED <<serial, serverVars>>
    \/ Critical(1) /\ UNCHANGED <<serial, serverVars>>
    \/ AllowWeight(1) /\ UNCHANGED <<serial, serverVars>>
    \/ AllowReturn(1) /\ UNCHANGED <<serial, serverVars>>

SeqSpec == Init /\ [][SeqNext]_vars

\* Concurrent callers for any clients and AddRule at any moment, with the
\* critical section of Allow taken one step at a time and the history of
\* each Limiter's lock kept.  ConcStep(p) is a step of caller p's call in
\* flight.
ConcStep(p) ==
    \/ /\ StoreLimiter(p)
       /\ serial' = [serial EXCEPT !.lim = Append(@, NewLimiter)]
       /\ UNCHANGED serverVars
    \/ \E t \in 0..ConcMaxTime : AllowNow(p, t) /\ UNCHANGED <<serial, serverVars>>
    \/ AllowPrevWindow(p) /\ UNCHANGED <<serial, serverVars>>
    \/ Lock(p) /\ TakeTurn(p) /\ UNCHANGED serverVars
    \/ CritCompare(p) /\ UNCHANGED <<serial, serverVars>>
    \/ CritUpdate(p) /\ UNCHANGED <<serial, serverVars>>
    \/ CritCopy(p) /\ UNCHANGED <<serial, serverVars>>
    \/ AllowWeight(p) /\ UNCHANGED <<serial, serverVars>>
    \/ AllowReturn(p) /\ UNCHANGED <<serial, serverVars>>

ConcNext ==
    \/ \E m \in ConcMaxRequestsArgs, u \in ConcUnitArgs :
          /\ addRules < ConcMaxAddRules /\ AddRule(m, u)
          /\ UNCHANGED <<serial, serverVars>>
    \/ \E p \in Procs, c \in Clients :
          /\ calls < ConcMaxCalls /\ FirstIdle(p) /\ AllowRequest(p, c)
          /\ UNCHANGED <<serial, serverVars>>
    \/ \E p \in Procs : ConcStep(p)

ConcSpec == Init /\ [][ConcNext]_vars

\* server.go:167-171.  The client's loop: after a 429 with timeLeft > 0 it
\* sleeps timeLeft before its next request, so that request's clock reading
\* t is at least timeLeft after the rejected one's.
Waited(t) ==
    (/\ Len(log) > 0
     /\ ~log[Len(log)].admitted
     /\ log[Len(log)].duration > 0)
    => t >= log[Len(log)].now + log[Len(log)].duration

\* One client sending its requests one after another under a rule set once
\* before them, sleeping the returned duration after each rejection.
RetryNext ==
    \/ \E m \in RetryMaxRequestsArgs, u \in RetryUnitArgs :
          /\ rule.nil /\ calls = 0 /\ AddRule(m, u)
          /\ UNCHANGED <<serial, serverVars>>
    \/ \E c \in SeqClients :
          /\ ~rule.nil /\ calls < RetryMaxCalls /\ AllowRequest(1, c)
          /\ UNCHANGED <<serial, serverVars>>
    \/ StoreLimiter(1) /\ UNCHANGED <<serial, serverVars>>
    \/ \E t \in 0..RetryMaxTime :
          Waited(t) /\ AllowNow(1, t) /\ UNCHANGED <<serial, serverVars>>
    \/ AllowPrevWindow(1) /\ UNCHANGED <<serial, serverVars>>
    \/ Lock(1) /\ UNCHANGED <<serial, serverVars>>
    \/ Critical(1) /\ UNCHANGED <<serial, serverVars>>
    \/ AllowWeight(1) /\ UNCHANGED <<serial, serverVars>>
    \/ AllowReturn(1) /\ UNCHANGED <<serial, serverVars>>

RetrySpec == Init /\ [][RetryNext]_vars

\* The handlers are interchangeable: a request is taken by the first idle one.
FirstIdleHandler(p) == \A q \in Procs : q < p => handler[q].pc # "idle"

\* The HTTP handlers serving concurrent requests of any clients; the rule
\* is set once, at any moment.
ServerNext ==
    \/ \E m \in ServerMaxRequestsArgs, u \in ServerUnitArgs :
          /\ rule.nil /\ AddRule(m, u)
          /\ UNCHANGED <<serial, serverVars>>
    \/ \E p \in Procs, c \in Clients :
          calls < ServerMaxCalls /\ FirstIdleHandler(p) /\ HandlerCall(p, c)
    \/ \E p \in Procs : StoreLimiter(p) /\ UNCHANGED <<serial, serverVars>>
    \/ \E p \in Procs, t \in 0..ServerMaxTime :
          AllowNow(p, t) /\ UNCHANGED <<serial, serverVars>>
    \/ \E p \in Procs : AllowPrevWindow(p) /\ UNCHANGED <<serial, serverVars>>
    \/ \E p \in Procs : Lock(p) /\ UNCHANGED <<serial, serverVars>>
    \/ \E p \in Procs : Critical(p) /\ UNCHANGED <<serial, serverVars>>
    \/ \E p \in Procs : AllowWeight(p) /\ UNCHANGED <<serial, serverVars>>
    \/ \E p \in Procs : HandlerDecision(p)
    \/ \E p \in Procs : ReportLoad(p)
    \/ \E p \in Procs : ReportStore(p)

ServerSpec == Init /\ [][ServerNext]_vars

\* The steps of ConcSpec with the goroutines scheduled fairly: a call in
\* flight that can take a step eventually takes one.  (A caller waiting in
\* Lock can take its step whenever the mutex is free.)
FairNext ==
    \/ \E m \in ConcMaxRequestsArgs, u \in ConcUnitArgs :
          /\ addRules < FairMaxAddRules /\ AddRule(m, u)
          /\ UNCHANGED <<serial, serverVars>>
    \/ \E p \in Procs, c \in Clients :
          /\ calls < FairMaxCalls /\ FirstIdle(p) /\ AllowRequest(p, c)
          /\ UNCHANGED <<serial, serverVars>>
    \/ \E p \in Procs : ConcStep(p)

FairSpec ==
    Init /\ [][FairNext]_vars /\ \A p \in Procs : WF_vars(ConcStep(p))

\* One caller issuing the requests of one client one after another, with
\* AddRule replacing the rule between requests.
ReconfNext ==
    \/ \E m \in ReconfMaxRequestsArgs, u \in ReconfUnitArgs :
          /\ addRules < ReconfMaxAddRules /\ pc[1] = "idle" /\ AddRule(m, u)
          /\ UNCHANGED <<serial, serverVars>>
    \/ \E c \in SeqClients :
          /\ calls < ReconfMaxCalls /\ AllowRequest(1, c)
          /\ UNCHANGED <<serial, serverVars>>
    \/ StoreLimiter(1) /\ UNCHANGED <<serial, serverVars>>
    \/ \E t \in 0..ReconfMaxTime : AllowNow(1, t) /\ UNCHANGED <<serial, serverVars>>
    \/ AllowPrevWindow(1) /\ UNCHANGED <<serial, serverVars>>
    \/ Lock(1) /\ UNCHANGED <<serial, serverVars>>
    \/ Critical(1) /\ UNCHANGED <<serial, serverVars>>
    \/ AllowWeight(1) /\ UNCHANGED <<serial, serverVars>>
    \/ AllowReturn(1) /\ UNCHANGED <<serial, serverVars>>

ReconfSpec == Init /\ [][ReconfNext]_vars

\* One caller issuing the requests of one client one after another under
\* the rule 15 per 22 ticks, many of them in one window.
WeightNext ==
    \/ \E m \in WeightMaxRequestsArgs, u \in WeightUnitArgs :
          /\ rule.nil /\ pc[1] = "idle" /\ AddRule(m, u)
          /\ UNCHANGED <<serial, serverVars>>
    \/ \E c \in SeqClients :
          /\ calls < WeightMaxCalls /\ AllowRequest(1, c)
          /\ UNCHANGED <<serial, serverVars>>
    \/ StoreLimiter(1) /\ UNCHANGED <<serial, serverVars>>
    \/ \E t \in WeightTimes : AllowNow(1, t) /\ UNCHANGED <<serial, serverVars>>
    \/ AllowPrevWindow(1) /\ UNCHANGED <<serial, serverVars>>
    \/ Lock(1) /\ UNCHANGED <<serial, serverVars>>
    \/ Critical(1) /\ UNCHANGED <<serial, serverVars>>
    \/ AllowWeight(1) /\ UNCHANGED <<serial, serverVars>>
    \/ AllowReturn(1) /\ UNCHANGED <<serial, serverVars>>

WeightSpec == Init /\ [][WeightNext]_vars

\* -------------------------------------------------------------- properties

\* The decisions returned so far, by position in the history.
Decisions == DOMAIN log

\* The decisions of a client made with a rule set.
Ruled(i) == ~log[i].noRule

\* A decision all of whose reads of the rule returned the same rule, with a
\* positive unit: the aligned windows of that rule exist.
OneRule(i) == Ruled(i) /\ ~log[i].mixed /\ log[i].used.unit > 0

\* A rule as the documentation of Rule describes it: both fields positive.
Valid(r) == ~r.nil /\ r.maxRequests > 0 /\ r.unit > 0

\* The aligned window of decision i under the rule it used.
WindowOf(i) == Truncate(log[i].now, log[i].used.unit)

\* The admitted requests of decision i's client in decision i's window.
AdmittedInWindow(i) ==
    {j \in Decisions : /\ OneRule(j)
                       /\ log[j].clientId = log[i].clientId
                       /\ log[j].used = log[i].used
                       /\ WindowOf(j) = WindowOf(i)
                       /\ log[j].admitted}

\* C1: under a rule (M, U) that is never replaced, no client has more than M
\* admitted requests in one aligned window, whatever the interleaving of the
\* AllowRequest calls.
C1_AtMostMPerWindow ==
    addRules <= 1 =>
        \A i \in Decisions :
            (OneRule(i) /\ Valid(log[i].used)) => Cardinality(AdmittedInWindow(i)) <= log[i].used.maxRequests

\* The Limiter objects allocated for client c.
LimitersOf(c) == {i \in DOMAIN createdFor : createdFor[i] = c}

\* C2: for any client key at most one Limiter is ever created, and all the
\* calls in flight for that key work on the same Limiter (stated while the
\* rule is a valid one that was never replaced).
C2_OneLimiterPerKey ==
    (addRules <= 1 /\ Valid(rule)) =>
    /\ \A c \in Clients : Cardinality(LimitersOf(c)) <= 1
    /\ \A p, q \in Procs :
          (loc[p].l # 0 /\ loc[q].l # 0 /\ loc[p].clientId = loc[q].clientId)
              => loc[p].l = loc[q].l

\* All of the N calls made so far have returned, were made for the one client
\* c under one rule that was never replaced, and fell in one aligned window.
AllInOneWindow(c) ==
    /\ addRules = 1
    /\ Valid(rule)
    /\ \A p \in Procs : pc[p] = "idle"
    /\ Len(log) = calls
    /\ calls >= 1
    /\ \A i \in Decisions :
          OneRule(i) /\ log[i].clientId = c /\ WindowOf(i) = WindowOf(1)

\* C3: after N calls for the same unseen client, all in one aligned window,
\* no request is lost from the count of the client's registered Limiter.
\* The stated count is N; the formula asks for N - 1 at least, the count
\* the code reaches when the calls run one after another (the call that
\* opens the window sets currCounter to 0), so that only a lost request
\* violates it.
C3_NoRequestLost ==
    \A c \in Clients :
        AllInOneWindow(c) => heap[clientLimiterMap[c]].currCounter >= calls - 1

\* C4: while no rule has ever been set, every AllowRequest call returns at
\* once with (true, -1): no call is inside Allow, and every decision in the
\* history is an admission with duration -1.
C4_NoRuleFailOpen ==
    rule.nil =>
        /\ \A p \in Procs : pc[p] = "idle"
        /\ \A i \in Decisions :
              log[i].noRule /\ log[i].admitted /\ log[i].duration = 0 - 1

\* C4's case: several requests were decided and no rule has been set.
C4_Witness == rule.nil /\ Len(log) >= 3

\* C5: an AddRule call with maxRequests <= 0 or unit <= 0 leaves the stored
\* rule as it was.
C5_InvalidRuleRejected ==
    [][\A m \in MaxRequestsArgs, u \in UnitArgs :
          ((m <= 0 \/ u <= 0) /\ AddRule(m, u)) => rule' = rule]_vars

\* C6: every read of the rule within one Allow call returns the same rule
\* (stated for the calls in flight that started under a valid rule, while
\* the stored rule is a valid one).
C6_SingleRulePerDecision ==
    \A p \in Procs :
        (pc[p] # "idle" /\ Valid(loc[p].used) /\ Valid(rule)) => ~loc[p].mixed

\* floor(a * b / c) for a, b >= 0 and c > 0.
FloorMulDiv(a, b, c) == (a * b) \div c

RankInWindow(i) ==
    Cardinality({j \in 1..i : OneRule(j) /\ log[j].clientId = log[i].clientId
                              /\ WindowOf(j) = WindowOf(i)})

\* C8: under a rule (M, U) a client without previous-window count that sends
\* its requests one after another has the first M requests of a window
\* admitted and the (M+1)-th rejected with duration U - (now - window start).
C8_FirstMAdmitted ==
    \A i \in Decisions :
        (OneRule(i) /\ log[i].prevCounter = 0) =>
            /\ RankInWindow(i) <= log[i].used.maxRequests => log[i].admitted
            /\ RankInWindow(i) = log[i].used.maxRequests + 1 =>
                  /\ ~log[i].admitted
                  /\ log[i].duration = log[i].used.unit - (log[i].now - WindowOf(i))

\* C8's case: rule 5 per 5 ticks, the sixth request of a window, part of the
\* way into it, rejected.
C8_Witness ==
    \E i \in Decisions :
        /\ OneRule(i) /\ log[i].prevCounter = 0
        /\ log[i].used.maxRequests = 5 /\ log[i].used.unit = 5
        /\ RankInWindow(i) = 6
        /\ log[i].now > WindowOf(i)
        /\ ~log[i].admitted

\* Decision i arrived more than one full window after the window its
\* Limiter tracked.
IdleReturn(i) ==
    /\ OneRule(i)
    /\ log[i].oldCurrWindow # ZeroTime
    /\ WindowOf(i) > log[i].oldCurrWindow + log[i].used.unit

\* C9: a request arriving more than one full window after the tracked
\* current window leaves prevWindow unset and prevCounter 0, and the
\* previous-window weighted count of its estimate is 0.
C9_IdleResetsPrevious ==
    \A i \in Decisions :
        IdleReturn(i) =>
            /\ log[i].prevWindow = ZeroTime
            /\ log[i].prevCounter = 0
            /\ log[i].weighted = Small(0)

\* C9's case: a window with counted requests, then a request more than one
\* window later.
C9_Witness ==
    \E i, j \in Decisions :
        /\ i < j
        /\ Ruled(i) /\ log[i].currCounter >= 1
        /\ IdleReturn(j) /\ log[j].oldCurrWindow = log[i].currWindow

\* C10 as stated: with a rule set, an admitted request carries no duration
\* (the absent value, -1).
C10_DurationOnlyOnRejection ==
    \A i \in Decisions :
        (Ruled(i) /\ log[i].admitted) => log[i].duration = 0 - 1

\* C10 as amended: with a rule set, every decision, admitted or rejected,
\* returns the time left in the current window, unit - (now - window start).
C10_DurationAlways ==
    \A i \in Decisions :
        OneRule(i) =>
            log[i].duration = log[i].used.unit - (log[i].now - WindowOf(i))

\* C10's case: an admitted and a rejected request, each returned with the
\* time left in its window.
C10_Witness ==
    \E i, j \in Decisions :
        /\ OneRule(i) /\ log[i].admitted /\ log[i].duration > 0
        /\ OneRule(j) /\ ~log[j].admitted /\ log[j].duration > 0

\* Caller q holds the lock of the Limiter it works on.
HoldsLock(q) == pc[q] \in {"crit", "update", "copy"}

\* C11: decisions for distinct client keys never contend on one lock.  The
\* Limiter a call for key A works on was allocated for key A, and a call
\* waiting for its Limiter's lock while no call for its own key holds a lock
\* can take it, whatever locks the calls for the other keys hold.
C11_PerClientLock ==
    \A p \in Procs :
        /\ loc[p].l # 0 => createdFor[loc[p].l] = loc[p].clientId
        /\ (/\ pc[p] = "lock"
            /\ \A q \in Procs :
                  HoldsLock(q) => loc[q].clientId # loc[p].clientId)
           => ENABLED Lock(p)

\* C11's case: a call for one key reaches its lock while a call for another
\* key is inside its critical section.
C11_Witness ==
    \E p, q \in Procs :
        /\ pc[p] = "lock" /\ HoldsLock(q)
        /\ loc[p].clientId # loc[q].clientId

\* Decision i opened a new current window for its client.
Opener(i) == OneRule(i) /\ log[i].branch # "same"

InOldWindow(i) ==
    {j \in 1..(i - 1) : /\ OneRule(j)
                        /\ log[j].clientId = log[i].clientId
                        /\ WindowOf(j) = log[i].oldCurrWindow}

\* C13: a request arriving in the window right after the tracked current
\* window moves that window into the previous slot unchanged: prevWindow is
\* the old currWindow and prevCounter the old currCounter, which counted
\* every request that followed the one opening that window, admitted or
\* rejected.
C13_RollKeepsOldWindow ==
    \A i \in Decisions :
        (OneRule(i) /\ log[i].branch = "next") =>
            /\ log[i].prevWindow = log[i].oldCurrWindow
            /\ log[i].prevCounter = log[i].oldCurrCounter
            /\ log[i].prevCounter = Cardinality(InOldWindow(i)) - 1
            /\ log[i].currWindow = log[i].oldCurrWindow + log[i].used.unit

\* C13's case: the old window held rejected requests too (its count is
\* above maxRequests), and the first request of the next window rolled it.
C13_Witness ==
    \E i \in Decisions :
        /\ OneRule(i) /\ log[i].branch = "next"
        /\ log[i].prevCounter > log[i].used.maxRequests
        /\ log[i].used.maxRequests > 0
        /\ \E j \in InOldWindow(i) : ~log[j].admitted

\* Limiter l has been advanced at least once and its call has returned.
Advanced(l) == \E i \in Decisions : log[i].l = l

\* The most recent decision made on Limiter l.
LastOn(l) ==
    CHOOSE i \in Decisions :
        log[i].l = l /\ \A j \in Decisions : log[j].l = l => j <= i

\* The decision that opened the current window of decision i's Limiter.
OpenedBy(i) ==
    CHOOSE j \in 1..i :
        /\ log[j].l = log[i].l /\ log[j].branch # "same"
        /\ \A k \in (j + 1)..i : log[k].l = log[i].l => log[k].branch = "same"

\* floor(t / d) * d for d > 0.
AlignedStart(t, d) == (t \div d) * d

\* C14 as stated: between requests, also after AddRule changed the unit, a
\* Limiter advanced at least once has currWindow = floor(now / unit) * unit
\* for the now and the unit of its most recent advance, and prevWindow, when
\* set, is currWindow - unit for that unit.
C14_AlignedToActiveUnit ==
    (\A p \in Procs : pc[p] = "idle") =>
        \A l \in DOMAIN heap :
            Advanced(l) =>
                LET d == log[LastOn(l)]
                IN  /\ heap[l].currWindow = AlignedStart(d.now, d.used.unit)
                    /\ heap[l].prevWindow # ZeroTime =>
                          heap[l].prevWindow = heap[l].currWindow - d.used.unit

\* C14 as amended: currWindow is aligned as stated, also after a change of
\* the unit; prevWindow, when set, is currWindow minus the unit of the
\* advance that opened the current window, which is the unit of the most
\* recent advance only if the unit was not replaced since.
C14_AlignedToOpeningUnit ==
    (\A p \in Procs : pc[p] = "idle") =>
        \A l \in DOMAIN heap :
            Advanced(l) =>
                LET d == log[LastOn(l)]
                    o == log[OpenedBy(LastOn(l))]
                IN  /\ heap[l].currWindow = AlignedStart(d.now, d.used.unit)
                    /\ heap[l].currWindow = AlignedStart(o.now, o.used.unit)
                    /\ heap[l].prevWindow # ZeroTime =>
                          heap[l].prevWindow = heap[l].currWindow - o.used.unit

\* C14's case: a window was rolled under one unit, AddRule replaced the
\* unit, and the next request fell in the tracked window of the new unit.
C14_Witness ==
    /\ \A p \in Procs : pc[p] = "idle"
    /\ \E l \in DOMAIN heap :
          /\ Advanced(l)
          /\ heap[l].prevWindow # ZeroTime
          /\ log[LastOn(l)].branch = "same"
          /\ log[LastOn(l)].used.unit # log[OpenedBy(LastOn(l))].used.unit

\* C15: for every decision made with a rule set (a valid rule, the same at
\* every read), admitted is
\*   floor(prevCounter * overlap / unit) + currCounter < maxRequests
\* for the counters right after the request's window update and
\* overlap = unit - (now - currWindow), and the returned duration is that
\* overlap.
C15_AdmittedIsFloorFormula ==
    \A i \in Decisions :
        (OneRule(i) /\ Valid(log[i].used)) =>
            LET overlap == log[i].used.unit - (log[i].now - log[i].currWindow)
            IN  /\ log[i].duration = overlap
                /\ log[i].admitted <=>
                      (FloorMulDiv(log[i].prevCounter, overlap, log[i].used.unit)
                          + log[i].currCounter < log[i].used.maxRequests)

\* The four fields of a Limiter.
Fields(lim) ==
    <<lim.prevWindow, lim.prevCounter, lim.currWindow, lim.currCounter>>

\* The four fields as caller p copied them out of its critical section.
Copied(p) ==
    <<loc[p].newPrevWindow, loc[p].newPrevCounter,
      loc[p].newCurrWindow, loc[p].newCurrCounter>>

\* The decision the code computes after the critical section (lines
\* 115-118) from a copy of the four fields, the clock reading and the rule.
DecisionFrom(lim, now, r) ==
    LET overlap == PrevWindowOverlap(r.unit, now, lim.currWindow)
    IN  {[admitted |-> Admitted(w, lim.currCounter, r.maxRequests),
          duration |-> overlap] :
            w \in WeightedCounter(lim.prevCounter, overlap, r.unit)}

\* C16: under a rule that is never replaced, concurrent Allow calls on one
\* Limiter never interleave their read-modify-write of the four fields.
\* Whenever the lock of a Limiter is free its fields are those the calls
\* leave when they run one after another in the order they took the lock
\* (each with the clock reading it made), the lock holder is the only call
\* between its comparison and its copy, each call copies out the fields of
\* its own turn, and each returned decision is the one of that turn.
C16_LockLinearizes ==
    addRules <= 1 =>
        /\ \A l \in DOMAIN heap :
              /\ heap[l].lock = 0 => Fields(heap[l]) = Fields(serial.lim[l])
              /\ Cardinality({p \in Procs : HoldsLock(p) /\ loc[p].l = l}) <= 1
        /\ \A p \in Procs :
              /\ pc[p] = "copy" => Fields(heap[loc[p].l]) = Fields(serial.snap[p])
              /\ pc[p] \in {"weight", "return"} =>
                    Copied(p) = Fields(serial.snap[p])
              /\ pc[p] = "return" =>
                    [admitted |-> Admitted(loc[p].prevWindowWeightedCounter,
                                           loc[p].newCurrCounter, rule.maxRequests),
                     duration |-> ReturnedDuration(FALSE, loc[p].prevWindowOverlap)]
                        \in DecisionFrom(serial.snap[p], loc[p].now, rule)

\* C16's case: two calls were in flight on one existing Limiter, the one
\* that read the clock later took the lock first, and both copied their
\* fields out.
C16_Witness ==
    /\ addRules <= 1
    /\ \E p, q \in Procs :
          /\ p # q /\ loc[p].l = loc[q].l /\ loc[p].l # 0
          /\ pc[p] = "return" /\ pc[q] = "return"
          /\ loc[p].now < loc[q].now
          /\ loc[q].branch # "same" /\ loc[p].branch # "same"
          /\ loc[p].oldCurrWindow = loc[q].newCurrWindow

\* C17: under fair scheduling every AllowRequest call returns, whatever
\* the other callers and AddRule do meanwhile: a call that holds a lock can
\* always take its next step (it waits for nothing), a call waits only in
\* Lock and only while another call for the same Limiter holds the mutex,
\* and every call in flight eventually is back at idle.
C17_EveryCallReturns ==
    /\ [](\A p \in Procs :
            /\ HoldsLock(p) => ENABLED ConcStep(p)
            /\ (pc[p] # "idle" /\ ~ENABLED ConcStep(p)) =>
                  /\ pc[p] = "lock"
                  /\ \E q \in Procs : HoldsLock(q) /\ loc[q].l = loc[p].l)
    /\ \A p \in Procs : (pc[p] # "idle") ~> (pc[p] = "idle")

\* C17's case: a call waits for the mutex another call holds, with AddRule
\* having replaced the rule since the holder read the clock.
C17_Witness ==
    \E p, q \in Procs :
        /\ pc[p] = "lock" /\ HoldsLock(q) /\ loc[p].l = loc[q].l
        /\ rule # loc[q].used

\* The requests of client c answered so far as allowed (200), or with 429.
Answered(c, allowed) ==
    Cardinality({i \in Decisions :
                    log[i].clientId = c /\ log[i].admitted = allowed})

\* The metric entry PrintMetric finds for client c (none counts as zeros).
MetricOf(c) ==
    IF clientMetricMap[c].present THEN clientMetricMap[c].val ELSE NewClientMetric

Sum(f) == f["A"] + f["B"]

\* C18: once all the requests in flight have completed, every client's
\* metric entry has NumAccepted = its requests answered as allowed and
\* NumRejected = its requests answered with 429, so that totalAccepted +
\* totalRejected is the number of requests handled (stated for requests
\* that were all decided under the rule).
C18_MetricsCountEveryRequest ==
    (/\ \A p \in Procs : handler[p].pc = "idle"
     /\ \A i \in Decisions : Ruled(i)) =>
        /\ \A c \in Clients :
              /\ MetricOf(c).NumAccepted = Answered(c, TRUE)
              /\ MetricOf(c).NumRejected = Answered(c, FALSE)
        /\ Sum([c \in Clients |-> MetricOf(c).NumAccepted])
              + Sum([c \in Clients |-> MetricOf(c).NumRejected]) = calls

\* Decision i and the k decisions before it were all rejections.
RejectedRun(i, k) ==
    /\ i - k >= 1
    /\ \A j \in (i - k)..i : ~log[j].admitted

\* C19: under a fixed rule with maxRequests >= 1, a client that sends its
\* requests one at a time and waits the returned duration after every
\* rejection is never rejected more than two times in a row, so that at
\* the latest the second retry after a rejection is admitted; every
\* rejection comes with a positive duration to wait, and a second
\* rejection in a row is the first request of the following window.
C19_RetryIsAdmitted ==
    \A i \in Decisions :
        /\ ~RejectedRun(i, 2)
        /\ ~log[i].admitted => log[i].duration > 0
        /\ RejectedRun(i, 1) =>
              /\ log[i].branch = "next"
              /\ log[i].currCounter = 0

\* C19's case: a rejection, a retry after the wait rejected again, and the
\* retry after the second wait admitted.
C19_Witness ==
    \E i \in Decisions :
        /\ RejectedRun(i, 1)
        /\ i + 1 \in Decisions /\ log[i + 1].admitted
        /\ log[i + 1].now >= log[i].now + log[i].duration

\* C20: under a rule that is never replaced and a clock that never goes
\* back, no update of a client's Limiter moves currWindow backwards, and no
\* request stamped in an older window discards the counts of a newer one,
\* also when several requests of the client are in flight (each reads the
\* clock before it takes the lock).
C20_WindowNeverMovesBack ==
    addRules <= 1 =>
        \A i \in Decisions :
            (OneRule(i) /\ Valid(log[i].used) /\ log[i].oldCurrWindow # ZeroTime) =>
                /\ log[i].currWindow >= log[i].oldCurrWindow
                /\ log[i].branch = "reset" => WindowOf(i) > log[i].oldCurrWindow

====
